---- MODULE Spec2Model ----
(***************************************************************************)
(* A model of five parts of cryo:                                          *)
(*   - the partition driver, CollectByBlock::collect_by_block and          *)
(*     transform_channel (crates/freeze/src/types/collection);             *)
(*   - the column builders of the balance_diffs and storages datasets     *)
(*     (crates/freeze/src/datasets);                                       *)
(*   - the concurrency calibration of the CLI, parse_concurrency_args      *)
(*     (src/cli.rs);                                                       *)
(*   - the freeze orchestrator and the conclusion it prints,               *)
(*     print_cryo_conclusion (crates/freeze/src/types/summaries.rs);       *)
(*   - option parsing, parse_opts (src/cli.rs).                            *)
(* Each part has its own specification over the module's variables; the    *)
(* variables of the other parts stay at their initial values.              *)
(***************************************************************************)
EXTENDS Integers, Sequences, FiniteSets, TLC

VARIABLES
    pc,          \* where collect_by_block is: fetch, transform, join, create_dfs, done
    result,      \* what collect_by_block returned: [kind, item]
    task,        \* per work item, the state of its extract task
    extracted,   \* per work item, the Result of extract: none, ok, err,
                 \* not_implemented
    chan,        \* the messages buffered in the mpsc channel
    receiver,    \* TRUE while the Receiver is alive
    msg,         \* the message transform_channel holds: <<>> or <<m>>
    transformed, \* the work items transform has put into the builder, in order
    arrived,     \* history: the work items whose send succeeded, in order
    collector,   \* whether the datatype overrides extract and transform, or has the defaults
    datatype,    \* column builders: which dataset the builder belongs to
    schema,      \* column builders: the set of columns the Table selects
    columns,     \* column builders: [n_rows, vec: column -> vector]
    lastResp,    \* history: the response of the last transform, <<>> or <<r>>
    prevRows,    \* history: n_rows before the last transform
    fetched,     \* storages: the outcome of the last extract not yet transformed
    args,        \* calibration: the caps given, <<R, C, B>>
    calibrated,  \* calibration: the outcome of parse_concurrency_args
    run,         \* freeze: dispatching, finished (summary complete), concluded
    partState,   \* freeze: per partition pending, dispatched, completed, skipped, errored
    freeze_summary, \* freeze: the FreezeSummary [completed, skipped, errored]
    query,       \* freeze: the Query [partitions, partitioned_by]
    conclusion,  \* freeze: what print_cryo_conclusion printed
    step,        \* parse_opts: the statement it is at, or how the process ended
    cli,         \* parse_opts: the fields of Args read so far
    environ,     \* parse_opts: what was read of ETH_RPC_URL and of the node
    fs,          \* parse_opts: the state of the --output-dir path on disk
    opts,        \* parse_opts: the fields of FreezeOpts computed so far
    exit_code    \* parse_opts: the exit code of the process, <<>> while it runs

cvars == <<pc, result, task, extracted, chan, receiver, msg, transformed, arrived,
           collector>>
bvars == <<datatype, schema, columns, lastResp, prevRows, fetched>>
kvars == <<args, calibrated>>
svars == <<run, partState, freeze_summary, query, conclusion>>
ovars == <<step, cli, environ, fs, opts, exit_code>>
vars == <<pc, result, task, extracted, chan, receiver, msg, transformed, arrived,
          collector,
          datatype, schema, columns, lastResp, prevRows, fetched, args, calibrated,
          run, partState, freeze_summary, query, conclusion,
          step, cli, environ, fs, opts, exit_code>>

(***************************************************************************)
(* Bounds of the model.                                                    *)
(***************************************************************************)
\* work items (extract tasks) of the partition
NumItems == 3
\* a balance_diffs builder takes a further response while n_rows is below this
MaxRows == 2
\* a storages builder takes a further response while n_rows is below this
MaxStorageRows == 4
\* the caps given on the command line range over 0..MaxCap and two large values
MaxCap == 6
\* partitions of the query the orchestrator runs
NumPartitions == 3
\* permits of the orchestrator's semaphore (max_concurrent_chunks)
MaxConcurrentChunks == 2
\* a summary handed to print_cryo_conclusion has up to this many completed
\* partitions, and its query up to MaxDims partitioning dimensions
MaxCompleted == 1
MaxDims == 1
\* datatype names given on the command line: 1..MaxDatatypes of them
MaxDatatypes == 2

WorkItems == 1..NumItems

(***************************************************************************)
(* The partition driver.                                                   *)
(***************************************************************************)

\* mpsc::channel(1)
ChannelCapacity == 1

Pending == [kind |-> "pending", item |-> 0]

\* a task holds a clone of the Sender from its spawn until its send returns
HoldsSender(t) == task[t] \in {"spawned", "extracting", "sending"}

\* every Sender is gone: fetch_partition has returned (its own Sender dropped)
\* and no task holds a clone
SendersDropped == pc # "fetch" /\ \A t \in WorkItems : ~HoldsSender(t)

\* a datatype either overrides extract and transform of the contract the
\* driver runs, or implements the contract with nothing but its Response type
\* (impl CollectByTransaction for Storages) and has the default bodies
Collectors == {"overridden", "default"}

\* fn extract: the Results it can return. The default body returns
\* Err(CollectError::CollectError("... not implemented")); an overriding body
\* returns Ok(response) or the Err of its RPC call
extract_default_ok(c) == {"ok", "err"}
extract(c) == IF c = "default" THEN {"not_implemented"} ELSE {"ok", "err"}

\* fn transform: the Results it can return; the default body returns the same
\* Err and leaves the builder it is handed as it was
transform(c) == IF c = "default" THEN {"not_implemented"} ELSE {"ok", "err"}

StartCollect ==
    /\ pc = "fetch"
    /\ result = Pending
    /\ task = [t \in WorkItems |-> "unspawned"]
    /\ extracted = [t \in WorkItems |-> "none"]
    /\ chan = <<>>
    /\ receiver = TRUE
    /\ msg = <<>>
    /\ transformed = <<>>
    /\ arrived = <<>>
    /\ collector \in Collectors

\* fetch_partition spawns one extract task per work item, in work-item order
FetchSpawn(t) ==
    /\ pc = "fetch"
    /\ task[t] = "unspawned"
    /\ \A u \in WorkItems : u < t => task[u] # "unspawned"
    /\ task' = [task EXCEPT ![t] = "spawned"]
    /\ UNCHANGED <<pc, result, extracted, chan, receiver, msg, transformed, arrived>>
    /\ UNCHANGED <<collector, bvars, kvars, svars, ovars>>

FetchReturnAfterTasks ==
    /\ pc = "fetch"
    /\ \A t \in WorkItems : task[t] = "finished"
    /\ pc' = "transform"
    /\ UNCHANGED <<result, task, extracted, chan, receiver, msg, transformed, arrived>>
    /\ UNCHANGED <<collector, bvars, kvars, svars, ovars>>

\* fetch_partition returns the handles; its Sender is dropped
FetchReturn ==
    /\ pc = "fetch"
    /\ \A t \in WorkItems : task[t] # "unspawned"
    /\ pc' = "transform"
    /\ UNCHANGED <<result, task, extracted, chan, receiver, msg, transformed, arrived>>
    /\ UNCHANGED <<collector, bvars, kvars, svars, ovars>>

\* fetch_partition fails before it spawns anything; the ? of line 42 returns
FetchFail ==
    /\ pc = "fetch"
    /\ \A t \in WorkItems : task[t] = "unspawned"
    /\ pc' = "done"
    /\ result' = [kind |-> "err_fetch", item |-> 0]
    /\ receiver' = FALSE
    /\ UNCHANGED <<task, extracted, chan, msg, transformed, arrived>>
    /\ UNCHANGED <<collector, bvars, kvars, svars, ovars>>

\* a spawned task is polled and issues its RPC call
TaskStart(t) ==
    /\ task[t] = "spawned"
    /\ task' = [task EXCEPT ![t] = "extracting"]
    /\ UNCHANGED <<pc, result, extracted, chan, receiver, msg, transformed, arrived>>
    /\ UNCHANGED <<collector, bvars, kvars, svars, ovars>>

\* extract returns Ok(response) or Err(e)
TaskExtract(t, r) ==
    /\ task[t] = "extracting"
    /\ task' = [task EXCEPT ![t] = "sending"]
    /\ extracted' = [extracted EXCEPT ![t] = r]
    /\ UNCHANGED <<pc, result, chan, receiver, msg, transformed, arrived>>
    /\ UNCHANGED <<collector, bvars, kvars, svars, ovars>>

\* send has room: the buffer holds fewer than ChannelCapacity messages
HasRoomUnbounded(c) == TRUE
HasRoom(c) == Len(c) < ChannelCapacity

\* sender.send(result).await completes: the Result is buffered
TaskSend(t) ==
    /\ task[t] = "sending"
    /\ receiver
    /\ HasRoom(chan)
    /\ chan' = Append(chan, [item |-> t, ok |-> (extracted[t] = "ok")])
    /\ arrived' = Append(arrived, t)
    /\ task' = [task EXCEPT ![t] = "exiting"]
    /\ UNCHANGED <<pc, result, extracted, receiver, msg, transformed>>
    /\ UNCHANGED <<collector, bvars, kvars, svars, ovars>>

\* the Receiver is gone: send returns a SendError and the Result is discarded
TaskSendClosed(t) ==
    /\ task[t] = "sending"
    /\ ~receiver
    /\ task' = [task EXCEPT ![t] = "exiting"]
    /\ UNCHANGED <<pc, result, extracted, chan, receiver, msg, transformed, arrived>>
    /\ UNCHANGED <<collector, bvars, kvars, svars, ovars>>

\* the task's future has returned; its output is stored and its handle is ready
TaskComplete(t) ==
    /\ task[t] = "exiting"
    /\ task' = [task EXCEPT ![t] = "finished"]
    /\ UNCHANGED <<pc, result, extracted, chan, receiver, msg, transformed, arrived>>
    /\ UNCHANGED <<collector, bvars, kvars, svars, ovars>>

\* what recv leaves in the buffer
DequeueKeep(c) == c
Dequeue(c) == Tail(c)

\* receiver.recv().await returns Some(message)
ChannelRecv ==
    /\ pc = "transform"
    /\ msg = <<>>
    /\ chan # <<>>
    /\ msg' = <<Head(chan)>>
    /\ chan' = Dequeue(chan)
    /\ UNCHANGED <<pc, result, task, extracted, receiver, transformed, arrived>>
    /\ UNCHANGED <<collector, bvars, kvars, svars, ovars>>

\* Ok(message) => Self::transform(message, &mut columns, schemas) returns Ok
TransformOk ==
    /\ pc = "transform"
    /\ msg # <<>>
    /\ msg[1].ok
    /\ "ok" \in transform(collector)
    /\ transformed' = Append(transformed, msg[1].item)
    /\ msg' = <<>>
    /\ UNCHANGED <<pc, result, task, extracted, chan, receiver, arrived>>
    /\ UNCHANGED <<collector, bvars, kvars, svars, ovars>>

\* transform returns Err: the ? of line 56 returns it, then the ? of line 43;
\* the Receiver is dropped with what it buffers, the handles are dropped
TransformErr ==
    /\ pc = "transform"
    /\ msg # <<>>
    /\ msg[1].ok
    /\ transform(collector) # {"ok"}
    /\ pc' = "done"
    /\ result' = [kind |-> "err_transform", item |-> msg[1].item]
    /\ msg' = <<>>
    /\ receiver' = FALSE
    /\ chan' = <<>>
    /\ UNCHANGED <<task, extracted, transformed, arrived>>
    /\ UNCHANGED <<collector, bvars, kvars, svars, ovars>>

ChannelErrSkips ==
    /\ pc = "transform"
    /\ msg # <<>>
    /\ ~msg[1].ok
    /\ msg' = <<>>
    /\ UNCHANGED <<pc, result, task, extracted, chan, receiver, transformed, arrived>>
    /\ UNCHANGED <<collector, bvars, kvars, svars, ovars>>

\* Err(e) => return Err(e), then the ? of line 43
ChannelErr ==
    /\ pc = "transform"
    /\ msg # <<>>
    /\ ~msg[1].ok
    /\ pc' = "done"
    /\ result' = [kind |-> "err_extract", item |-> msg[1].item]
    /\ msg' = <<>>
    /\ receiver' = FALSE
    /\ chan' = <<>>
    /\ UNCHANGED <<task, extracted, transformed, arrived>>
    /\ UNCHANGED <<collector, bvars, kvars, svars, ovars>>

\* recv returns None: the buffer is empty and every Sender is dropped
ChannelClosed ==
    /\ pc = "transform"
    /\ msg = <<>>
    /\ chan = <<>>
    /\ SendersDropped
    /\ pc' = "join"
    /\ receiver' = FALSE
    /\ UNCHANGED <<result, task, extracted, chan, msg, transformed, arrived>>
    /\ UNCHANGED <<collector, bvars, kvars, svars, ovars>>

\* a handle's await returns once its task has finished
AllJoined == \A t \in WorkItems : task[t] = "finished"

\* the send of a finished task failed
SendFailed(t) == \A i \in 1..Len(arrived) : arrived[i] # t

JoinWithoutWaiting ==
    /\ pc = "join"
    /\ pc' = "create_dfs"
    /\ UNCHANGED <<result, task, extracted, chan, receiver, msg, transformed, arrived>>
    /\ UNCHANGED <<collector, bvars, kvars, svars, ovars>>

\* join_partition_handles(handles).await?
JoinHandles ==
    /\ pc = "join"
    /\ AllJoined
    /\ IF \E t \in WorkItems : SendFailed(t)
       THEN /\ pc' = "done"
            /\ result' = [kind |-> "err_join", item |-> 0]
       ELSE /\ pc' = "create_dfs"
            /\ UNCHANGED result
    /\ UNCHANGED <<task, extracted, chan, receiver, msg, transformed, arrived>>
    /\ UNCHANGED <<collector, bvars, kvars, svars, ovars>>

\* columns.create_dfs(schemas, chain_id)
CreateDfs(ok) ==
    /\ pc = "create_dfs"
    /\ pc' = "done"
    /\ result' = [kind |-> IF ok THEN "ok" ELSE "err_dfs", item |-> 0]
    /\ UNCHANGED <<task, extracted, chan, receiver, msg, transformed, arrived>>
    /\ UNCHANGED <<collector, bvars, kvars, svars, ovars>>

NextCollect ==
    \/ \E t \in WorkItems : FetchSpawn(t)
    \/ FetchReturn
    \/ FetchFail
    \/ \E t \in WorkItems : TaskStart(t)
    \/ \E t \in WorkItems : \E r \in extract(collector) : TaskExtract(t, r)
    \/ \E t \in WorkItems : TaskSend(t)
    \/ \E t \in WorkItems : TaskSendClosed(t)
    \/ \E t \in WorkItems : TaskComplete(t)
    \/ ChannelRecv
    \/ TransformOk
    \/ TransformErr
    \/ ChannelErr
    \/ ChannelClosed
    \/ JoinHandles
    \/ \E ok \in BOOLEAN : CreateDfs(ok)

\* the steps of the future of collect_by_block: fetch_partition,
\* transform_channel, join_partition_handles, create_dfs
Driver ==
    \/ \E t \in WorkItems : FetchSpawn(t)
    \/ FetchReturn
    \/ FetchFail
    \/ ChannelRecv
    \/ TransformOk
    \/ TransformErr
    \/ ChannelErr
    \/ ChannelClosed
    \/ JoinHandles
    \/ \E ok \in BOOLEAN : CreateDfs(ok)

\* the steps of the spawned extract task of work item t
ExtractTask(t) ==
    \/ TaskStart(t)
    \/ \E r \in extract(collector) : TaskExtract(t, r)
    \/ TaskSend(t)
    \/ TaskSendClosed(t)
    \/ TaskComplete(t)

\* the runtime polls every future that can make progress: the future of
\* collect_by_block and each spawned task; an extract that was started returns
CollectFairness ==
    /\ WF_vars(Driver)
    /\ \A t \in WorkItems : WF_vars(ExtractTask(t))

(***************************************************************************)
(* The column builders of balance_diffs and storages.                      *)
(***************************************************************************)

\* struct BalanceDiffs: the column vectors beside n_rows
BalanceDiffsColumns ==
    {"block_number", "transaction_index", "transaction_hash", "address",
     "from_value", "to_value", "chain_id"}

\* struct Storages: the column vectors beside n_rows
StoragesColumns == {"block_number", "address", "slot", "value", "chain_id"}

ColumnsOf(dt) ==
    IF dt = "balance_diffs" THEN BalanceDiffsColumns
    ELSE IF dt = "storages" THEN StoragesColumns
    ELSE {}

\* #[derive(Default)]: n_rows = 0 and every vector empty
DefaultColumns(dt) == [n_rows |-> 0, vec |-> [c \in ColumnsOf(dt) |-> <<>>]]

\* store!(schema, columns, name, value): push when the schema has the column
store(sch, cols, name, value) ==
    IF name \in sch
    THEN [cols EXCEPT !.vec[name] = Append(@, value)]
    ELSE cols

\* ethers Diff<U256>: Same, Born(a), Died(a), Changed { from: a, to: b }
Same == [tag |-> "Same", a |-> 0, b |-> 0]
Born(v) == [tag |-> "Born", a |-> v, b |-> 0]
Died(v) == [tag |-> "Died", a |-> v, b |-> 0]
Changed(f, t) == [tag |-> "Changed", a |-> f, b |-> t]

\* the (from, to) pair of a diff that is not Same
FromToDiedSwapped(diff) ==
    CASE diff.tag = "Born" -> <<0, diff.a>>
      [] diff.tag = "Died" -> <<0, diff.a>>
      [] diff.tag = "Changed" -> <<diff.a, diff.b>>
FromTo(diff) ==
    CASE diff.tag = "Born" -> <<0, diff.a>>
      [] diff.tag = "Died" -> <<diff.a, 0>>
      [] diff.tag = "Changed" -> <<diff.a, diff.b>>

\* process_balance_diff with the address pushed without store!
process_balance_diff_push(addr, diff, block_number, transaction_hash, transaction_index, cols, sch) ==
    IF diff.tag = "Same" THEN cols
    ELSE LET c0 == [cols EXCEPT !.n_rows = @ + 1]
             c1 == store(sch, c0, "block_number", block_number)
             c2 == store(sch, c1, "transaction_index", transaction_index)
             c3 == store(sch, c2, "transaction_hash", transaction_hash)
             c4 == [c3 EXCEPT !.vec["address"] = Append(@, addr)]
             c5 == store(sch, c4, "from_value", FromTo(diff)[1])
         IN  store(sch, c5, "to_value", FromTo(diff)[2])

process_balance_diff(addr, diff, block_number, transaction_hash, transaction_index, cols, sch) ==
    IF diff.tag = "Same" THEN cols
    ELSE LET c0 == [cols EXCEPT !.n_rows = @ + 1]
             c1 == store(sch, c0, "block_number", block_number)
             c2 == store(sch, c1, "transaction_index", transaction_index)
             c3 == store(sch, c2, "transaction_hash", transaction_hash)
             c4 == store(sch, c3, "address", addr)
             c5 == store(sch, c4, "from_value", FromTo(diff)[1])
         IN  store(sch, c5, "to_value", FromTo(diff)[2])

Min(x, y) == IF x <= y THEN x ELSE y

\* the accounts of one state diff in the order of the BTreeMap, as entries
RECURSIVE AccountEntries(_, _, _, _)
AccountEntries(accounts, trace, tx, index) ==
    IF accounts = {} THEN <<>>
    ELSE LET addr == CHOOSE x \in accounts : \A y \in accounts : x <= y
         IN  <<[addr |-> addr, diff |-> trace.diffs[addr], tx |-> tx,
                index |-> index]>>
             \o AccountEntries(accounts \ {addr}, trace, tx, index)

\* traces.iter().zip(txs).enumerate(), then the accounts of each state diff:
\* the calls of process_balance_diff a response leads to, in order
RECURSIVE TraceEntries(_, _, _)
TraceEntries(traces, txs, i) ==
    IF i > Min(Len(traces), Len(txs)) THEN <<>>
    ELSE (IF traces[i].has
          THEN AccountEntries(DOMAIN traces[i].diffs, traces[i], txs[i], i - 1)
          ELSE <<>>)
         \o TraceEntries(traces, txs, i + 1)

RECURSIVE ProcessEntries(_, _, _, _, _)
ProcessEntries(entries, k, block_number, cols, sch) ==
    IF k > Len(entries) THEN cols
    ELSE ProcessEntries(entries, k + 1, block_number,
             process_balance_diff(entries[k].addr, entries[k].diff, block_number,
                                  entries[k].tx, entries[k].index, cols, sch),
             sch)

\* process_balance_diffs(&response, columns, schemas)
process_balance_diffs(response, cols, sch) ==
    ProcessEntries(TraceEntries(response.traces, response.txs, 1), 1,
                   response.block_number, cols, sch)

\* process_nonce with the address and the slot stored in each other's column
process_nonce_swapped(cols, data, sch) ==
    LET c0 == [cols EXCEPT !.n_rows = @ + 1]
        c1 == store(sch, c0, "block_number", data.block)
        c2 == store(sch, c1, "address", data.slot)
        c3 == store(sch, c2, "slot", data.address)
    IN  store(sch, c3, "value", data.output)

\* process_nonce(columns, data, schema) of storages.rs
process_nonce(cols, data, sch) ==
    LET c0 == [cols EXCEPT !.n_rows = @ + 1]
        c1 == store(sch, c0, "block_number", data.block)
        c2 == store(sch, c1, "address", data.address)
        c3 == store(sch, c2, "slot", data.slot)
    IN  store(sch, c3, "value", data.output)

(***************************************************************************)
(* The responses the builders are given.                                   *)
(***************************************************************************)
Accounts == {1, 2}

\* a BlockTrace without a state diff, and one with the given balance diffs
NoStateDiff == [has |-> FALSE, diffs |-> <<>>]
StateDiff(d) == [has |-> TRUE, diffs |-> d]

Born5 == Born(5)
Died4 == Died(4)
Changed37 == Changed(3, 7)

\* one Same, one Born(5) and one Changed{3,7}, in two traces
ScenarioTraces ==
    <<StateDiff([a \in {1, 2} |-> IF a = 1 THEN Same ELSE Born5]),
      StateDiff([a \in {1} |-> Changed37])>>

TraceLists ==
    { <<>>,
      <<NoStateDiff>>,
      <<StateDiff([a \in {1} |-> Same])>>,
      <<StateDiff([a \in {2} |-> Died4])>>,
      ScenarioTraces,
      <<NoStateDiff, StateDiff([a \in {1, 2} |-> IF a = 1 THEN Born5 ELSE Died4])>> }

\* transaction hashes: 0 is None
TxLists == { <<>>, <<1>>, <<1, 2>>, <<0, 0>> }

BalanceDiffsResponses ==
    [block_number : {1}, txs : TxLists, traces : TraceLists]

\* the value of a storage slot on the chain
StorageAt(block, address, slot) == 10 * address + slot

\* BlockTxAddressOutput of Storages::extract
StoragesResponses ==
    { [block |-> 1, address |-> a, slot |-> sl, output |-> StorageAt(1, a, sl)] :
        a \in {1, 2}, sl \in {1, 2} }

\* the dimensions Storages::extract reads from its Params
StoragesDims == {"address", "block_number", "slot"}

\* Params of a storages work item: each dimension is absent, <<>>, or present,
\* <<v>>; the Params that lack a dimension carry 1 in the others
StoragesRequests ==
    { r \in [address : {<<>>, <<1>>, <<2>>}, block_number : {<<>>, <<1>>},
             slot : {<<>>, <<1>>, <<2>>}] :
        (\E d \in StoragesDims : r[d] = <<>>) =>
            \A d \in StoragesDims : r[d] \in {<<>>, <<1>>} }

\* Params::address(), block_number(), slot(): Err(BadParams) on an absent
\* dimension
Accessor(request, dim) ==
    IF request[dim] = <<>> THEN [ok |-> FALSE, value |-> 0]
    ELSE [ok |-> TRUE, value |-> request[dim][1]]

NotFetched == [kind |-> "none"]

\* what extract returned for a request: its Result, the accessor that failed,
\* and the number of get_storage_at calls it issued
Extracted(request, kind, dim, rpc_calls, response) ==
    [kind |-> kind, request |-> request, dim |-> dim, rpc_calls |-> rpc_calls,
     response |-> response]

storages_extract_rpc_first(request, rpc_ok) ==
    LET address == Accessor(request, "address")
        block_number == Accessor(request, "block_number")
        slot == Accessor(request, "slot")
    IN  IF ~address.ok THEN Extracted(request, "BadParams", "address", 0, <<>>)
        ELSE IF ~block_number.ok
        THEN Extracted(request, "BadParams", "block_number", 0, <<>>)
        ELSE IF ~rpc_ok THEN Extracted(request, "rpc_err", "", 1, <<>>)
        ELSE IF ~slot.ok THEN Extracted(request, "BadParams", "slot", 1, <<>>)
        ELSE Extracted(request, "ok", "", 1,
                 <<[block |-> block_number.value, address |-> address.value,
                    slot |-> slot.value,
                    output |-> StorageAt(block_number.value, address.value,
                                         slot.value)]>>)

\* Storages::extract(request, source, schemas): the three accessors with ?,
\* in the order address, block_number, slot, then get_storage_at(..).await?
storages_extract(request, rpc_ok) ==
    LET address == Accessor(request, "address")
        block_number == Accessor(request, "block_number")
        slot == Accessor(request, "slot")
    IN  IF ~address.ok THEN Extracted(request, "BadParams", "address", 0, <<>>)
        ELSE IF ~block_number.ok
        THEN Extracted(request, "BadParams", "block_number", 0, <<>>)
        ELSE IF ~slot.ok THEN Extracted(request, "BadParams", "slot", 0, <<>>)
        ELSE IF ~rpc_ok THEN Extracted(request, "rpc_err", "", 1, <<>>)
        ELSE Extracted(request, "ok", "", 1,
                 <<[block |-> block_number.value, address |-> address.value,
                    slot |-> slot.value,
                    output |-> StorageAt(block_number.value, address.value,
                                         slot.value)]>>)

\* an extract task of the storages partition runs Storages::extract
ExtractStorages(request, rpc_ok) ==
    /\ datatype = "storages"
    /\ columns.n_rows < MaxStorageRows
    /\ fetched' = storages_extract(request, rpc_ok)
    /\ UNCHANGED <<datatype, schema, columns, lastResp, prevRows>>
    /\ UNCHANGED <<cvars, kvars, svars, ovars>>

\* BalanceDiffs::transform(response, columns, schemas)
TransformBalanceDiffs(response) ==
    /\ datatype = "balance_diffs"
    /\ columns.n_rows < MaxRows
    /\ columns' = process_balance_diffs(response, columns, schema)
    /\ lastResp' = <<response>>
    /\ prevRows' = columns.n_rows
    /\ UNCHANGED <<datatype, schema, fetched>>
    /\ UNCHANGED <<cvars, kvars, svars, ovars>>

\* Storages::transform(response, columns, schemas), on the Ok(response) that
\* the channel carried from extract
TransformStorages(response) ==
    /\ datatype = "storages"
    /\ columns.n_rows < MaxStorageRows
    /\ fetched.kind = "ok"
    /\ fetched.response = <<response>>
    /\ columns' = process_nonce(columns, response, schema)
    /\ lastResp' = <<response>>
    /\ prevRows' = columns.n_rows
    /\ fetched' = NotFetched
    /\ UNCHANGED <<datatype, schema>>
    /\ UNCHANGED <<cvars, kvars, svars, ovars>>

NextBuilders ==
    \/ \E response \in BalanceDiffsResponses : TransformBalanceDiffs(response)
    \/ \E request \in StoragesRequests : \E rpc_ok \in BOOLEAN :
          ExtractStorages(request, rpc_ok)
    \/ \E response \in StoragesResponses : TransformStorages(response)

(***************************************************************************)
(* Concurrency calibration: parse_concurrency_args of src/cli.rs.          *)
(***************************************************************************)

\* (None, None, None) => (32, 3)
DefaultChunks == 32
DefaultBlocks == 3
\* std::cmp::max(100 / max_concurrent_blocks, 1)
DefaultRequests == 100

\* an Option<u64>: <<>> is None, <<v>> is Some(v)
IsSome(o) == o # <<>>

Max(x, y) == IF x >= y THEN x ELSE y

\* what a call of parse_concurrency_args ends with: the pair it returns, or
\* the panic that unwinds out of it (the function returns no Result)
Returned(chunks, blocks) == [kind |-> "ok", chunks |-> chunks, blocks |-> blocks]
Panicked(why) == [kind |-> why, chunks |-> 0, blocks |-> 0]

\* u64 division by zero: panic 'attempt to divide by zero'
DivideByZero == Panicked("panic_divide_by_zero")

\* parse_concurrency_args without the max(.., 1) of the R-only arm
parse_concurrency_args_nomax(R, C, B) ==
    CASE ~IsSome(R) /\ ~IsSome(C) /\ ~IsSome(B) ->
           Returned(DefaultChunks, DefaultBlocks)
      [] IsSome(R) /\ ~IsSome(C) /\ ~IsSome(B) ->
           Returned(R[1] \div DefaultBlocks, DefaultBlocks)
      [] ~IsSome(R) /\ IsSome(C) /\ ~IsSome(B) ->
           Returned(C[1], DefaultBlocks)
      [] ~IsSome(R) /\ ~IsSome(C) /\ IsSome(B) ->
           IF B[1] = 0 THEN DivideByZero
           ELSE Returned(Max(DefaultRequests \div B[1], 1), B[1])
      [] IsSome(R) /\ IsSome(C) /\ ~IsSome(B) ->
           IF C[1] = 0 THEN DivideByZero
           ELSE Returned(C[1], Max(R[1] \div C[1], 1))
      [] ~IsSome(R) /\ IsSome(C) /\ IsSome(B) ->
           Returned(C[1], B[1])
      [] IsSome(R) /\ ~IsSome(C) /\ IsSome(B) ->
           IF B[1] = 0 THEN DivideByZero
           ELSE Returned(Max(R[1] \div B[1], 1), B[1])
      [] IsSome(R) /\ IsSome(C) /\ IsSome(B) ->
           IF R[1] = C[1] * B[1]
           THEN Returned(C[1], B[1])
           ELSE Panicked("panic_assert")

\* parse_concurrency_args whose (None, Some(C), Some(B)) arm forgets B
parse_concurrency_args_dropb(R, C, B) ==
    CASE ~IsSome(R) /\ ~IsSome(C) /\ ~IsSome(B) ->
           Returned(DefaultChunks, DefaultBlocks)
      [] IsSome(R) /\ ~IsSome(C) /\ ~IsSome(B) ->
           Returned(Max(R[1] \div DefaultBlocks, 1), DefaultBlocks)
      [] ~IsSome(R) /\ IsSome(C) /\ ~IsSome(B) ->
           Returned(C[1], DefaultBlocks)
      [] ~IsSome(R) /\ ~IsSome(C) /\ IsSome(B) ->
           IF B[1] = 0 THEN DivideByZero
           ELSE Returned(Max(DefaultRequests \div B[1], 1), B[1])
      [] IsSome(R) /\ IsSome(C) /\ ~IsSome(B) ->
           IF C[1] = 0 THEN DivideByZero
           ELSE Returned(C[1], Max(R[1] \div C[1], 1))
      [] ~IsSome(R) /\ IsSome(C) /\ IsSome(B) ->
           Returned(C[1], DefaultBlocks)
      [] IsSome(R) /\ ~IsSome(C) /\ IsSome(B) ->
           IF B[1] = 0 THEN DivideByZero
           ELSE Returned(Max(R[1] \div B[1], 1), B[1])
      [] IsSome(R) /\ IsSome(C) /\ IsSome(B) ->
           IF R[1] = C[1] * B[1]
           THEN Returned(C[1], B[1])
           ELSE Panicked("panic_assert")

\* parse_concurrency_args(args) on (max_concurrent_requests,
\* max_concurrent_chunks, max_concurrent_blocks); the caps of the model are
\* far below 2^64, so no product or quotient leaves u64
parse_concurrency_args(R, C, B) ==
    CASE ~IsSome(R) /\ ~IsSome(C) /\ ~IsSome(B) ->
           Returned(DefaultChunks, DefaultBlocks)
      [] IsSome(R) /\ ~IsSome(C) /\ ~IsSome(B) ->
           Returned(Max(R[1] \div DefaultBlocks, 1), DefaultBlocks)
      [] ~IsSome(R) /\ IsSome(C) /\ ~IsSome(B) ->
           Returned(C[1], DefaultBlocks)
      [] ~IsSome(R) /\ ~IsSome(C) /\ IsSome(B) ->
           IF B[1] = 0 THEN DivideByZero
           ELSE Returned(Max(DefaultRequests \div B[1], 1), B[1])
      [] IsSome(R) /\ IsSome(C) /\ ~IsSome(B) ->
           IF C[1] = 0 THEN DivideByZero
           ELSE Returned(C[1], Max(R[1] \div C[1], 1))
      [] ~IsSome(R) /\ IsSome(C) /\ IsSome(B) ->
           Returned(C[1], B[1])
      [] IsSome(R) /\ ~IsSome(C) /\ IsSome(B) ->
           IF B[1] = 0 THEN DivideByZero
           ELSE Returned(Max(R[1] \div B[1], 1), B[1])
      [] IsSome(R) /\ IsSome(C) /\ IsSome(B) ->
           IF R[1] = C[1] * B[1]
           THEN Returned(C[1], B[1])
           ELSE Panicked("panic_assert")

\* the caps a user may give: absent, or a u64 (0 included)
CapValues == (0..MaxCap) \cup {DefaultRequests, DefaultRequests + 1}
OptionalCaps == {<<>>} \cup {<<v>> : v \in CapValues}

\* let (max_concurrent_chunks, max_concurrent_blocks) = parse_concurrency_args(&args)
ParseConcurrencyArgs(R, C, B) ==
    /\ calibrated.kind = "unset"
    /\ args' = <<R, C, B>>
    /\ calibrated' = parse_concurrency_args(R, C, B)
    /\ UNCHANGED <<cvars, bvars, svars, ovars>>

NextCalibration ==
    \E R \in OptionalCaps, C \in OptionalCaps, B \in OptionalCaps :
        ParseConcurrencyArgs(R, C, B)

(***************************************************************************)
(* The freeze orchestrator and print_cryo_conclusion of summaries.rs.      *)
(***************************************************************************)

\* error_counts.iter().take(10)
TopErrors == 10

\* the error messages: one more than the summary shows
ErrorKinds == 1..(TopErrors + 1)

\* enum Dim
Dims ==
    { "BlockNumber", "TransactionHash", "CallData", "Address", "Contract",
      "ToAddress", "Slot", "Topic0", "Topic1", "Topic2", "Topic3" }

\* the dimensions print_chunks_speeds asks about, in its order
SpeedDims ==
    << "BlockNumber", "TransactionHash", "CallData", "Address", "Contract",
       "Slot", "Topic0", "Topic1", "Topic2", "Topic3" >>

\* the Partition with identity p of a query partitioned by dims: each of its
\* dimension fields is an Option, None (<<>>) or Some(chunks) given by the
\* number of values the chunks hold (<<n>>); partition p holds p values
Partition(p, dims) ==
    [id |-> p, size |-> [d \in Dims |-> IF d \in dims THEN <<p>> ELSE <<>>]]

\* an entry of FreezeSummary.errored: (Option<Partition>, CollectError)
Errored(partition, error) == [partition |-> <<partition>>, error |-> error]

Partitions == 1..NumPartitions

\* the query of an orchestrator run: NumPartitions partitions by block number
FreezeQuery == [partitions |-> NumPartitions, partitioned_by |-> {"BlockNumber"}]

FreezePartition(p) == Partition(p, FreezeQuery.partitioned_by)

\* FreezeSummary::default()
EmptySummary == [completed |-> <<>>, skipped |-> <<>>, errored |-> <<>>]

NotConcluded ==
    [kind |-> "none", errors |-> {}, more |-> FALSE, chunks |-> <<>>, speeds |-> <<>>]

\* the partitions that hold a permit of the semaphore
InFlight == { p \in Partitions : partState[p] = "dispatched" }

\* for each Partition in order: acquire a permit and spawn its driver
DispatchPartition(p) ==
    /\ run = "dispatching"
    /\ partState[p] = "pending"
    /\ \A q \in Partitions : q < p => partState[q] # "pending"
    /\ Cardinality(InFlight) < MaxConcurrentChunks
    /\ partState' = [partState EXCEPT ![p] = "dispatched"]
    /\ UNCHANGED <<run, freeze_summary, query, conclusion>>
    /\ UNCHANGED <<cvars, bvars, kvars, ovars>>

\* all files of the partition already exist: skipped, no RPC issued
PartitionSkipped(p) ==
    /\ run = "dispatching"
    /\ partState[p] = "dispatched"
    /\ partState' = [partState EXCEPT ![p] = "skipped"]
    /\ freeze_summary' =
           [freeze_summary EXCEPT !.skipped = Append(@, FreezePartition(p))]
    /\ UNCHANGED <<run, query, conclusion>>
    /\ UNCHANGED <<cvars, bvars, kvars, ovars>>

\* the driver and the sink succeeded
PartitionCompleted(p) ==
    /\ run = "dispatching"
    /\ partState[p] = "dispatched"
    /\ partState' = [partState EXCEPT ![p] = "completed"]
    /\ freeze_summary' =
           [freeze_summary EXCEPT !.completed = Append(@, FreezePartition(p))]
    /\ UNCHANGED <<run, query, conclusion>>
    /\ UNCHANGED <<cvars, bvars, kvars, ovars>>

\* a failure of one partition that drops the partitions not yet dispatched
PartitionErroredAborts(p, e) ==
    /\ run = "dispatching"
    /\ partState[p] = "dispatched"
    /\ partState' = [q \in Partitions |->
                        IF q = p THEN "errored"
                        ELSE IF partState[q] = "pending" THEN "abandoned"
                        ELSE partState[q]]
    /\ freeze_summary' =
           [freeze_summary EXCEPT !.errored = Append(@, Errored(FreezePartition(p), e))]
    /\ UNCHANGED <<run, query, conclusion>>
    /\ UNCHANGED <<cvars, bvars, kvars, ovars>>

\* the driver or the sink failed: the error is captured in the summary and
\* the loop proceeds
PartitionErrored(p, e) ==
    /\ run = "dispatching"
    /\ partState[p] = "dispatched"
    /\ partState' = [partState EXCEPT ![p] = "errored"]
    /\ freeze_summary' =
           [freeze_summary EXCEPT !.errored = Append(@, Errored(FreezePartition(p), e))]
    /\ UNCHANGED <<run, query, conclusion>>
    /\ UNCHANGED <<cvars, bvars, kvars, ovars>>

\* the loop has ended and every spawned partition has been joined
FreezeReturn ==
    /\ run = "dispatching"
    /\ \A p \in Partitions : partState[p] \notin {"pending", "dispatched"}
    /\ run' = "finished"
    /\ UNCHANGED <<partState, freeze_summary, query, conclusion>>
    /\ UNCHANGED <<cvars, bvars, kvars, ovars>>

\* the keys of error_counts
ErrorMessages(errored) == { errored[i].error : i \in DOMAIN errored }

\* for (_partition, error) in errored: *error_counts.entry(..).or_insert(0) += 1
error_counts(errored) ==
    [m \in ErrorMessages(errored) |->
        Cardinality({ i \in DOMAIN errored : errored[i].error = m })]

\* error_counts.iter().take(10): a HashMap iterates in an unspecified order,
\* so the entries taken are any TopErrors of its keys (all of them when there
\* are no more than that)
Takes(errored) ==
    IF Cardinality(ErrorMessages(errored)) <= TopErrors
    THEN { ErrorMessages(errored) }
    ELSE { S \in SUBSET ErrorMessages(errored) : Cardinality(S) = TopErrors }

\* chunks.into_iter().flatten().flatten().collect().size(), from chunk i on
RECURSIVE n_completed(_, _, _)
n_completed(chunks, dim, i) ==
    IF i > Len(chunks) THEN 0
    ELSE (IF chunks[i].size[dim] = <<>> THEN 0 ELSE chunks[i].size[dim][1])
         + n_completed(chunks, dim, i + 1)

\* print_chunk_speed / print_unit_speeds: the "<name> collected" bullet with
\* its four rate lines
print_chunk_speed(dim, chunks) ==
    [dim |-> dim, collected |-> n_completed(chunks, dim, 1)]

\* print_dim_speed! for each dimension of SpeedDims that partition_by contains
print_chunks_speeds(chunks, partition_by) ==
    LET due == SelectSeq(SpeedDims, LAMBDA d : d \in partition_by)
    IN  [i \in 1..Len(due) |-> print_chunk_speed(due[i], chunks)]

\* a "chunks errored / skipped / collected" bullet: the count and its percentage
ChunksBullet(n, n_chunks) == [n |-> n, percent |-> (100 * n) \div n_chunks]

\* print_cryo_conclusion(freeze_summary, query, env): shown is what the
\* HashMap iteration yields, clockOk whether t_end.duration_since(t_start) is Ok
print_cryo_conclusion(summary, q, shown, clockOk) ==
    LET counts == error_counts(summary.errored)
        errors == { <<m, counts[m]>> : m \in shown }
        more == Cardinality(DOMAIN counts) > TopErrors
        n_chunks == q.partitions
    IN  IF ~clockOk
        THEN [kind |-> "aborted_system_time", errors |-> errors, more |-> more,
              chunks |-> <<>>, speeds |-> <<>>]
        ELSE IF n_chunks = 0
        THEN [kind |-> "panic_divide_by_zero", errors |-> errors, more |-> more,
              chunks |-> <<>>, speeds |-> <<>>]
        ELSE [kind |-> "ok", errors |-> errors, more |-> more,
              chunks |-> << ChunksBullet(Len(summary.errored), n_chunks),
                            ChunksBullet(Len(summary.skipped), n_chunks),
                            ChunksBullet(Len(summary.completed), n_chunks) >>,
              speeds |-> print_chunks_speeds(summary.completed, q.partitioned_by)]

\* the call of print_cryo_conclusion once the summary is complete
PrintCryoConclusion(shown, clockOk) ==
    /\ run = "finished"
    /\ run' = "concluded"
    /\ conclusion' = print_cryo_conclusion(freeze_summary, query, shown, clockOk)
    /\ UNCHANGED <<partState, freeze_summary, query>>
    /\ UNCHANGED <<cvars, bvars, kvars, ovars>>

Conclude ==
    \E shown \in Takes(freeze_summary.errored) : \E clockOk \in BOOLEAN :
        PrintCryoConclusion(shown, clockOk)

NextFreeze ==
    \/ \E p \in Partitions : DispatchPartition(p)
    \/ \E p \in Partitions : PartitionSkipped(p)
    \/ \E p \in Partitions : PartitionCompleted(p)
    \/ \E p \in Partitions : \E e \in {1, 2} : PartitionErrored(p, e)
    \/ FreezeReturn
    \/ Conclude

NextConclusion == Conclude

\* a summary with d distinct error messages, one errored partition each and
\* a second one for message h (none when h = 0), then skipped and completed
\* partitions, of a query partitioned by dims
SummaryOf(d, h, s, k, dims) ==
    LET n == d + (IF h = 0 THEN 0 ELSE 1)
    IN  [ errored |-> [i \in 1..n |->
                          Errored(Partition(i, dims), IF i <= d THEN i ELSE h)],
          skipped |-> [i \in 1..s |-> Partition(n + i, dims)],
          completed |-> [i \in 1..k |-> Partition(n + s + i, dims)] ]

\* the partitioned_by of the queries handed to print_cryo_conclusion
DimLists == { D \in SUBSET Dims : Cardinality(D) <= MaxDims }

(***************************************************************************)
(* Option parsing: parse_opts of src/cli.rs and what it calls.             *)
(***************************************************************************)

\* the exit status of a process whose main thread panicked
PanicExit == 101

\* the names of get_datatype_help
DocumentedNames ==
    { "blocks", "logs", "transactions", "call_traces", "state_diffs",
      "balance_diffs", "code_diffs", "slot_diffs", "nonce_diffs", "opcode_traces" }

\* the names a user may type: the documented ones, the two aliases and a
\* name that is no datatype
DatatypeNames == DocumentedNames \cup {"events", "txs", "foo"}

\* args.datatype: required, num_args(1..)
DatatypeArgs == UNION { [1..n -> DatatypeNames] : n \in 1..MaxDatatypes }

\* parse_datatype(datatype); "panic" is panic!("invalid datatype")
parse_datatype(name) ==
    CASE name = "blocks" -> "Blocks"
      [] name = "logs" -> "Logs"
      [] name = "events" -> "Logs"
      [] name = "transactions" -> "Transactions"
      [] name = "txs" -> "Transactions"
      [] OTHER -> "panic"

\* a URL string, as what precedes its host and the host
Url(scheme, host) == [scheme |-> scheme, host |-> host]

\* url.starts_with("http")
StartsWithHttp(url) == url.scheme \in {"http://", "https://"}

\* parse_rpc_url(args): rpc is args.rpc and envvar is env::var("ETH_RPC_URL"),
\* each None (<<>>) or Some(url) (<<url>>); "exit" is std::process::exit(0)
parse_rpc_url(rpc, envvar) ==
    IF rpc = <<>> /\ envvar = <<>>
    THEN [kind |-> "exit", url |-> <<>>]
    ELSE LET url == IF rpc # <<>> THEN rpc[1] ELSE envvar[1]
         IN  [kind |-> "ok",
              url |-> << IF StartsWithHttp(url) THEN url
                         ELSE Url("http://", url.host) >>]

\* Provider::<Http>::try_from(rpc_url) is Ok: the URL has a host
UrlParses(url) == url.host # ""

\* the network name derived from eth_chainId
NetworkOfChain(chain_id) ==
    IF chain_id = 1 THEN <<"ethereum">> ELSE <<"network_", chain_id>>

\* what the --output-dir path is on disk
FsStates == {"dir", "dir_readonly", "file", "missing", "missing_readonly_parent"}

\* std::fs::canonicalize(path) is Ok: the path exists
canonicalize(f) == f \in {"dir", "dir_readonly", "file"}

\* fs::create_dir_all(path): whether it is Ok, and the path afterwards
create_dir_all(f) ==
    CASE f \in {"dir", "dir_readonly"} -> [ok |-> TRUE, fs |-> f]
      [] f = "missing" -> [ok |-> TRUE, fs |-> "dir"]
      [] OTHER -> [ok |-> FALSE, fs |-> f]

\* match (args.csv, args.json); "panic" is panic!("choose one of ...")
output_format(csv, json) ==
    CASE csv /\ json -> "panic"
      [] csv -> "Csv"
      [] json -> "Json"
      [] OTHER -> "Parquet"

\* a format that passes whatever it is
SupportedAny(format) == TRUE

\* if output_format != FileFormat::Parquet { panic!(..) }
Supported(format) == format = "Parquet"

\* datatype.dataset().default_sort()
default_sort(dt) ==
    CASE dt = "Blocks" -> <<"number">>
      [] dt = "Logs" -> <<"block_number", "log_index">>
      [] dt = "Transactions" -> <<"block_number", "transaction_index">>

\* parse_sort(raw_sort, schemas), schemas given by its keys; "panic" is
\* panic!("custom sort not supported for multiple schemas")
parse_sort(raw_sort, schemas) ==
    IF raw_sort = <<>>
    THEN [kind |-> "ok", sort |-> <<[dt \in schemas |-> default_sort(dt)]>>]
    ELSE IF Cardinality(schemas) > 1
    THEN [kind |-> "panic", sort |-> <<>>]
    ELSE [kind |-> "ok", sort |-> <<[dt \in schemas |-> raw_sort]>>]

\* the fields of Args before any is read: <<>> is unread, <<v>> is read as v
UnreadArgs ==
    [datatype |-> <<>>, blocks |-> <<>>, rpc |-> <<>>, network_name |-> <<>>,
     csv |-> <<>>, json |-> <<>>, sort |-> <<>>]

\* nothing read of the environment, nothing written to the terminal
UnreadEnviron == [ETH_RPC_URL |-> <<>>, chain |-> <<>>, output |-> <<>>]

\* the fields of FreezeOpts before any is computed
NoOpts ==
    [datatypes |-> <<>>, rpc_url |-> <<>>, network_name |-> <<>>,
     output_dir |-> <<>>, output_format |-> <<>>, sort |-> <<>>]

\* a panic in parse_opts unwinds through main: the message is written and
\* the process ends with the exit status of a panic
Panic(env, message) ==
    /\ step' = "panicked"
    /\ environ' = [env EXCEPT !.output = <<message>>]
    /\ exit_code' = <<PanicExit>>

\* args.datatype.iter().map(|datatype| parse_datatype(datatype)).collect()
ParseDatatypes(names) ==
    /\ step = "datatypes"
    /\ cli' = [cli EXCEPT !.datatype = <<names>>]
    /\ IF \E i \in DOMAIN names : parse_datatype(names[i]) = "panic"
       THEN /\ Panic(environ, "invalid datatype")
            /\ UNCHANGED opts
       ELSE /\ step' = "blocks"
            /\ opts' = [opts EXCEPT !.datatypes =
                           <<[i \in DOMAIN names |-> parse_datatype(names[i])]>>]
            /\ UNCHANGED <<environ, exit_code>>
    /\ UNCHANGED fs
    /\ UNCHANGED <<cvars, bvars, kvars, svars>>

\* chunks::parse_block_inputs(&args.blocks).unwrap()
ParseBlockInputs(ok) ==
    /\ step = "blocks"
    /\ cli' = [cli EXCEPT !.blocks = <<ok>>]
    /\ IF ok
       THEN /\ step' = "rpc_url"
            /\ UNCHANGED <<environ, exit_code>>
       ELSE Panic(environ, "called Result::unwrap() on an Err value")
    /\ UNCHANGED <<fs, opts>>
    /\ UNCHANGED <<cvars, bvars, kvars, svars>>

\* let rpc_url = parse_rpc_url(&args); ETH_RPC_URL is read only without --rpc
ParseRpcUrl(rpc, envvar) ==
    /\ step = "rpc_url"
    /\ cli' = [cli EXCEPT !.rpc = <<rpc>>]
    /\ LET parsed == parse_rpc_url(rpc, envvar)
           env == IF rpc = <<>>
                  THEN [environ EXCEPT !.ETH_RPC_URL = <<envvar>>]
                  ELSE environ
       IN  IF parsed.kind = "exit"
           THEN /\ step' = "exited"
                /\ environ' = [env EXCEPT !.output =
                                  <<"must provide --rpc or set ETH_RPC_URL">>]
                /\ exit_code' = <<0>>
                /\ UNCHANGED opts
           ELSE /\ step' = "provider"
                /\ environ' = env
                /\ opts' = [opts EXCEPT !.rpc_url = parsed.url]
                /\ UNCHANGED exit_code
    /\ UNCHANGED fs
    /\ UNCHANGED <<cvars, bvars, kvars, svars>>

\* Provider::<Http>::try_from(rpc_url).unwrap()
MakeProvider ==
    /\ step = "provider"
    /\ IF UrlParses(opts.rpc_url[1])
       THEN /\ step' = "network"
            /\ UNCHANGED <<environ, exit_code>>
       ELSE Panic(environ, "called Result::unwrap() on an Err value")
    /\ UNCHANGED <<cli, fs, opts>>
    /\ UNCHANGED <<cvars, bvars, kvars, svars>>

\* let network_name = match &args.network_name: the node is asked for its
\* chain id only without --network-name; chain is <<>> when the call fails
ParseNetworkName(name, chain) ==
    /\ step = "network"
    /\ cli' = [cli EXCEPT !.network_name = <<name>>]
    /\ IF name # <<>>
       THEN /\ step' = "output_dir"
            /\ opts' = [opts EXCEPT !.network_name = <<name[1]>>]
            /\ UNCHANGED <<environ, exit_code>>
       ELSE IF chain # <<>>
       THEN /\ step' = "output_dir"
            /\ opts' = [opts EXCEPT !.network_name = <<NetworkOfChain(chain[1])>>]
            /\ environ' = [environ EXCEPT !.chain = <<chain>>]
            /\ UNCHANGED exit_code
       ELSE /\ Panic([environ EXCEPT !.chain = <<chain>>],
                     "could not determine chain_id")
            /\ UNCHANGED opts
    /\ UNCHANGED fs
    /\ UNCHANGED <<cvars, bvars, kvars, svars>>

\* process output directory: canonicalize(..).unwrap(), then create_dir_all
ProcessOutputDir ==
    /\ step = "output_dir"
    /\ IF ~canonicalize(fs)
       THEN /\ Panic(environ, "called Result::unwrap() on an Err value")
            /\ UNCHANGED <<fs, opts>>
       ELSE /\ fs' = create_dir_all(fs).fs
            /\ IF create_dir_all(fs).ok
               THEN /\ step' = "output_format"
                    /\ opts' = [opts EXCEPT !.output_dir = <<"canonical">>]
                    /\ UNCHANGED <<environ, exit_code>>
               ELSE /\ Panic(environ, "Error creating directory")
                    /\ UNCHANGED opts
    /\ UNCHANGED cli
    /\ UNCHANGED <<cvars, bvars, kvars, svars>>

\* process output formats
ProcessOutputFormat(csv, json) ==
    /\ step = "output_format"
    /\ cli' = [cli EXCEPT !.csv = <<csv>>, !.json = <<json>>]
    /\ IF output_format(csv, json) = "panic"
       THEN /\ Panic(environ, "choose one of parquet, csv, or json")
            /\ UNCHANGED opts
       ELSE IF ~Supported(output_format(csv, json))
       THEN /\ Panic(environ, "non-parquet not supported until hex encoding implemented")
            /\ UNCHANGED opts
       ELSE /\ step' = "concurrency"
            /\ opts' = [opts EXCEPT !.output_format = <<output_format(csv, json)>>]
            /\ UNCHANGED <<environ, exit_code>>
    /\ UNCHANGED fs
    /\ UNCHANGED <<cvars, bvars, kvars, svars>>

\* the caps given to a run of parse_opts
CliCaps == { <<>>, <<0>>, <<2>> }

\* process concurrency info: parse_concurrency_args(&args) within parse_opts
ProcessConcurrency(R, C, B) ==
    /\ step = "concurrency"
    /\ args' = <<R, C, B>>
    /\ calibrated' = parse_concurrency_args(R, C, B)
    /\ IF parse_concurrency_args(R, C, B).kind = "ok"
       THEN /\ step' = "sort"
            /\ UNCHANGED <<environ, exit_code>>
       ELSE Panic(environ, parse_concurrency_args(R, C, B).kind)
    /\ UNCHANGED <<cli, fs, opts>>
    /\ UNCHANGED <<cvars, bvars, svars>>

\* the keys of the schemas map: the distinct datatypes
SchemaKeys == { opts.datatypes[1][i] : i \in DOMAIN opts.datatypes[1] }

\* process schemas; let sort = parse_sort(&args.sort, &schemas)
ParseSort(raw_sort) ==
    /\ step = "sort"
    /\ cli' = [cli EXCEPT !.sort = <<raw_sort>>]
    /\ IF parse_sort(raw_sort, SchemaKeys).kind = "ok"
       THEN /\ step' = "parsed"
            /\ opts' = [opts EXCEPT !.sort = parse_sort(raw_sort, SchemaKeys).sort]
            /\ UNCHANGED <<environ, exit_code>>
       ELSE /\ Panic(environ, "custom sort not supported for multiple schemas")
            /\ UNCHANGED opts
    /\ UNCHANGED fs
    /\ UNCHANGED <<cvars, bvars, kvars, svars>>

\* parse_opts returned: the run dispatches its partitions and the process
\* ends with status 0, partial errors or not
RunFreeze ==
    /\ step = "parsed"
    /\ step' = "frozen"
    /\ exit_code' = <<0>>
    /\ UNCHANGED <<cli, environ, fs, opts>>
    /\ UNCHANGED <<cvars, bvars, kvars, svars>>

\* the values of --rpc and of ETH_RPC_URL
RpcArgs == { <<>>, <<Url("", "node")>>, <<Url("http://", "node")>> }
RpcEnvs == { <<>>, <<Url("https://", "node")>>, <<Url("", "")>> }

NextCli ==
    \/ \E names \in DatatypeArgs : ParseDatatypes(names)
    \/ \E ok \in BOOLEAN : ParseBlockInputs(ok)
    \/ \E rpc \in RpcArgs : \E envvar \in RpcEnvs : ParseRpcUrl(rpc, envvar)
    \/ MakeProvider
    \/ \E name \in {<<>>, <<<<"mynet">>>>} : \E chain \in {<<>>, <<1>>, <<5>>} :
           ParseNetworkName(name, chain)
    \/ ProcessOutputDir
    \/ \E csv \in BOOLEAN : \E json \in BOOLEAN : ProcessOutputFormat(csv, json)
    \/ \E R \in CliCaps : \E C \in CliCaps : \E B \in CliCaps :
           ProcessConcurrency(R, C, B)
    \/ \E raw_sort \in {<<>>, <<"block_number">>} : ParseSort(raw_sort)
    \/ RunFreeze

(***************************************************************************)
(* Idle values of the parts a specification does not run.                  *)
(***************************************************************************)
IdleCollect ==
    /\ pc = "idle"
    /\ result = Pending
    /\ task = [t \in WorkItems |-> "unspawned"]
    /\ extracted = [t \in WorkItems |-> "none"]
    /\ chan = <<>>
    /\ receiver = FALSE
    /\ msg = <<>>
    /\ transformed = <<>>
    /\ arrived = <<>>
    /\ collector = "overridden"

IdleBuilders ==
    /\ datatype = "none"
    /\ schema = {}
    /\ columns = [n_rows |-> 0]
    /\ lastResp = <<>>
    /\ prevRows = 0
    /\ fetched = NotFetched

IdleCalibration ==
    /\ args = <<>>
    /\ calibrated = [kind |-> "unset", chunks |-> 0, blocks |-> 0]

IdleFreeze ==
    /\ run = "idle"
    /\ partState = [p \in Partitions |-> "pending"]
    /\ freeze_summary = EmptySummary
    /\ query = [partitions |-> 0, partitioned_by |-> {}]
    /\ conclusion = NotConcluded

IdleCli ==
    /\ step = "idle"
    /\ cli = UnreadArgs
    /\ environ = UnreadEnviron
    /\ fs = "dir"
    /\ opts = NoOpts
    /\ exit_code = <<>>

InitCollect ==
    StartCollect /\ IdleBuilders /\ IdleCalibration /\ IdleFreeze /\ IdleCli

SpecCollect == InitCollect /\ [][NextCollect]_vars

\* the partition driver under a fair runtime
SpecCollectFair == InitCollect /\ [][NextCollect]_vars /\ CollectFairness

\* a fresh builder of either dataset under any schema
InitBuilders ==
    /\ IdleCollect
    /\ IdleCalibration
    /\ IdleFreeze
    /\ IdleCli
    /\ datatype \in {"balance_diffs", "storages"}
    /\ schema \in SUBSET ColumnsOf(datatype)
    /\ columns = DefaultColumns(datatype)
    /\ lastResp = <<>>
    /\ prevRows = 0
    /\ fetched = NotFetched

SpecBuilders == InitBuilders /\ [][NextBuilders]_vars

\* the command line has been parsed, calibration has not yet run
InitCalibration ==
    /\ IdleCollect
    /\ IdleBuilders
    /\ IdleFreeze
    /\ IdleCli
    /\ args = <<>>
    /\ calibrated = [kind |-> "unset", chunks |-> 0, blocks |-> 0]

SpecCalibration == InitCalibration /\ [][NextCalibration]_vars

\* the orchestrator starts on the partitions of the query
InitFreeze ==
    /\ IdleCollect
    /\ IdleBuilders
    /\ IdleCalibration
    /\ IdleCli
    /\ run = "dispatching"
    /\ partState = [p \in Partitions |-> "pending"]
    /\ freeze_summary = EmptySummary
    /\ query = FreezeQuery
    /\ conclusion = NotConcluded

SpecFreeze == InitFreeze /\ [][NextFreeze]_vars

\* print_cryo_conclusion is about to be called on a complete summary
InitConclusion ==
    /\ IdleCollect
    /\ IdleBuilders
    /\ IdleCalibration
    /\ IdleCli
    /\ run = "finished"
    /\ partState = [p \in Partitions |-> "pending"]
    /\ conclusion = NotConcluded
    /\ \E d \in 0..(TopErrors + 1), s \in 0..1, k \in 0..MaxCompleted, dims \in DimLists :
           \E h \in 0..d :
               /\ freeze_summary = SummaryOf(d, h, s, k, dims)
               /\ query = [partitions |-> d + (IF h = 0 THEN 0 ELSE 1) + s + k,
                           partitioned_by |-> dims]

SpecConclusion == InitConclusion /\ [][NextConclusion]_vars

\* Args::parse() has returned; the --output-dir path is in any state
InitCli ==
    /\ IdleCollect
    /\ IdleBuilders
    /\ IdleCalibration
    /\ IdleFreeze
    /\ step = "datatypes"
    /\ cli = UnreadArgs
    /\ environ = UnreadEnviron
    /\ fs \in FsStates
    /\ opts = NoOpts
    /\ exit_code = <<>>

SpecCli == InitCli /\ [][NextCli]_vars

(***************************************************************************)
(* Claims about the partition driver, checked under SpecCollect.           *)
(***************************************************************************)

\* the consumer holds an Err it has received from the channel
ErrReceived == msg # <<>> /\ ~msg[1].ok

\* collect_by_block has returned the Err of an extract task
ErrObserved == result.kind = "err_extract"

\* an extract task that has not yet produced its Result
Outstanding(t) == task[t] \in {"spawned", "extracting"}

IsPrefix(s, t) ==
    /\ Len(s) <= Len(t)
    /\ \A i \in 1..Len(s) : s[i] = t[i]

\* C1: once the consumer has received the first Err it receives no further
\* message, and no extract task that is still outstanding starts its RPC call
\* or finishes its extract afterwards (the outstanding tasks are cancelled).
C1_FirstErrCancelsOutstanding ==
    [][/\ ErrReceived =>
            \/ msg' = msg
            \/ result'.kind = "err_extract" /\ result'.item = msg[1].item
       /\ ErrObserved =>
            /\ msg' = <<>>
            /\ \A t \in WorkItems :
                  Outstanding(t) => task'[t] \in {task[t], "cancelled"}]_vars

\* C2: create_dfs starts only after every extract task of the partition has
\* been joined: while create_dfs runs, and after it has returned, no extract
\* task is still running.
C2_CreateDfsAfterJoin ==
    (pc = "create_dfs" \/ result.kind \in {"ok", "err_dfs"})
        => \A t \in WorkItems : task[t] = "finished"

C2_Witness ==
    /\ pc = "create_dfs"
    /\ \A t \in WorkItems : task[t] = "finished"
    /\ Len(transformed) = NumItems

\* C3: the channel buffers at most one Result, and a task whose Result is
\* ready while the buffer is full stays blocked in send: no step taken from a
\* state with a full buffer completes the send of a blocked task.
C3_CapacityOne ==
    /\ [](Len(chan) <= 1)
    /\ [][\A t \in WorkItems :
            (task[t] = "sending" /\ Len(chan) >= 1) => task'[t] = "sending"]_vars

C3_Witness ==
    /\ receiver
    /\ Len(chan) = 1
    /\ \E t \in WorkItems : task[t] = "sending" /\ extracted[t] = "ok"

\* the run got past transform_channel without an Err: no extract failed and
\* no transform failed
NoFailureRun ==
    \/ pc \in {"join", "create_dfs"}
    \/ result.kind \in {"ok", "err_dfs"}

\* C4: the single consumer transforms the responses in the order they arrived
\* on the channel, each at most once; in a run where nothing fails every work
\* item's response has been transformed exactly once.
C4_TransformInArrivalOrder ==
    /\ IsPrefix(transformed, arrived)
    /\ Len(msg) <= 1
    /\ NoFailureRun =>
         /\ transformed = arrived
         /\ Len(transformed) = NumItems
         /\ \A t \in WorkItems : \E i \in 1..NumItems : transformed[i] = t

\* a run without failure whose transform order is not the work-item order
C4_Witness ==
    /\ result.kind = "ok"
    /\ Len(transformed) = NumItems
    /\ \E i \in 1..NumItems : transformed[i] # i

(***************************************************************************)
(* Claims about the column builders, checked under SpecBuilders.           *)
(***************************************************************************)

\* C5: after any sequence of transform calls, under any schema, every column
\* the schema selects (chain_id included) has a vector of length n_rows.
C5_SelectedColumnsHaveNRows ==
    \A c \in schema : Len(columns.vec[c]) = columns.n_rows

\* the (trace, account) pairs of a balance-diffs response that the zip of
\* its traces and transaction hashes reaches and whose balance diff is not Same
NonSameEntries(r) ==
    { e \in (1..Min(Len(r.traces), Len(r.txs))) \X Accounts :
        /\ r.traces[e[1]].has
        /\ e[2] \in DOMAIN r.traces[e[1]].diffs
        /\ r.traces[e[1]].diffs[e[2]] # Same }

\* the rows the last transform had to emit
RowsDue ==
    IF lastResp = <<>> THEN 0
    ELSE IF datatype = "storages" THEN 1
    ELSE Cardinality(NonSameEntries(lastResp[1]))

\* C6: a column the schema does not select stays empty whatever is
\* transformed, while n_rows still counts every row emitted.
C6_UnselectedColumnsStayEmpty ==
    /\ \A c \in ColumnsOf(datatype) \ schema : columns.vec[c] = <<>>
    /\ datatype # "none" => columns.n_rows = prevRows + RowsDue

C6_Witness ==
    /\ datatype = "balance_diffs"
    /\ columns.n_rows >= 2
    /\ "address" \notin schema
    /\ "from_value" \notin schema
    /\ "to_value" \in schema
    /\ Len(columns.vec["to_value"]) = columns.n_rows

\* the (from, to) pair the claim gives for a diff that is not Same
ClaimedFromTo(diff) ==
    IF diff.tag = "Born" THEN <<0, diff.a>>
    ELSE IF diff.tag = "Died" THEN <<diff.a, 0>>
    ELSE <<diff.a, diff.b>>

\* the diffs of a response that are not Same, in the order they are processed
DiffsNotSame(r) ==
    SelectSeq(TraceEntries(r.traces, r.txs, 1), LAMBDA e : e.diff # Same)

\* what the last transform appended to a column
Appended(c) == SubSeq(columns.vec[c], prevRows + 1, Len(columns.vec[c]))

StoragesRowColumns == {"block_number", "address", "slot", "value"}

StoragesRowOf(r, c) ==
    CASE c = "block_number" -> r.block
      [] c = "address" -> r.address
      [] c = "slot" -> r.slot
      [] c = "value" -> r.output

\* C12: for storages collected by block, every work item (b, a, s) whose read
\* succeeded contributes exactly one row, holding b, a, s and the value read
\* in the selected columns; the four work items of 1 block, 2 addresses and
\* 2 slots so give 4 rows, one per (address, slot) pair, all with that block.
C12_StoragesOneRowPerItem ==
    (datatype = "storages" /\ lastResp # <<>>)
        => /\ columns.n_rows = prevRows + 1
           /\ lastResp[1].output =
                  StorageAt(lastResp[1].block, lastResp[1].address, lastResp[1].slot)
           /\ \A c \in schema \cap StoragesRowColumns :
                  /\ Len(columns.vec[c]) = columns.n_rows
                  /\ columns.vec[c][columns.n_rows] = StoragesRowOf(lastResp[1], c)
           /\ StoragesRowColumns \subseteq schema
                  => \A i \in 1..columns.n_rows :
                         /\ columns.vec["block_number"][i] = 1
                         /\ columns.vec["value"][i] =
                                StorageAt(columns.vec["block_number"][i],
                                          columns.vec["address"][i],
                                          columns.vec["slot"][i])

\* the four work items of the partition, each transformed once
C12_Witness ==
    /\ datatype = "storages"
    /\ StoragesRowColumns \subseteq schema
    /\ columns.n_rows = 4
    /\ { <<columns.vec["address"][i], columns.vec["slot"][i]>> : i \in 1..4 }
           = {1, 2} \X {1, 2}
    /\ \A i \in 1..4 : columns.vec["block_number"][i] = 1
    /\ columns.vec["address"] = <<1, 1, 2, 2>>
    /\ columns.vec["slot"] = <<1, 2, 1, 2>>
    /\ columns.vec["value"] = <<11, 12, 21, 22>>

(***************************************************************************)
(* Claims about concurrency calibration, checked under SpecCalibration.    *)
(***************************************************************************)

Ran == calibrated.kind # "unset"

Supplied(i) == IsSome(args[i])
Cap(i) == args[i][1]
AllSuppliedAtLeastOne == \A i \in 1..3 : Supplied(i) => Cap(i) >= 1

\* the table of the specification, R = args[1], C = args[2], B = args[3]
TablePair ==
    IF ~Supplied(1) /\ ~Supplied(2) /\ ~Supplied(3) THEN <<32, 3>>
    ELSE IF Supplied(1) /\ ~Supplied(2) /\ ~Supplied(3)
         THEN <<Max(Cap(1) \div 3, 1), 3>>
    ELSE IF ~Supplied(1) /\ Supplied(2) /\ ~Supplied(3) THEN <<Cap(2), 3>>
    ELSE IF ~Supplied(1) /\ ~Supplied(2) /\ Supplied(3)
         THEN <<Max(100 \div Cap(3), 1), Cap(3)>>
    ELSE IF Supplied(1) /\ Supplied(2) /\ ~Supplied(3)
         THEN <<Cap(2), Max(Cap(1) \div Cap(2), 1)>>
    ELSE IF ~Supplied(1) /\ Supplied(2) /\ Supplied(3) THEN <<Cap(2), Cap(3)>>
    ELSE IF Supplied(1) /\ ~Supplied(2) /\ Supplied(3)
         THEN <<Max(Cap(1) \div Cap(3), 1), Cap(3)>>
    ELSE <<Cap(2), Cap(3)>>

AllThree == Supplied(1) /\ Supplied(2) /\ Supplied(3)

\* C8: with every supplied cap at least 1 (and R = C*B when all three are
\* supplied) calibration returns the pair (C, B) of the table.
C8_CalibrationTable ==
    ( /\ Ran
      /\ AllSuppliedAtLeastOne
      /\ AllThree => Cap(1) = Cap(2) * Cap(3) )
    => /\ calibrated.kind = "ok"
       /\ <<calibrated.chunks, calibrated.blocks>> = TablePair

\* B alone and above 100: the max(.., 1) of the table decides
C8_Witness ==
    /\ Ran
    /\ args = <<<<>>, <<>>, <<101>>>>
    /\ calibrated = [kind |-> "ok", chunks |-> 1, blocks |-> 101]

\* C9: with R, C and B all supplied and R # C*B, calibration fails with a
\* BadParams error value and returns no pair.
C9_MismatchIsBadParams ==
    (Ran /\ AllThree /\ Cap(1) # Cap(2) * Cap(3))
        => calibrated.kind = "BadParams"

\* C10: for every combination of absent or supplied caps, 0 included,
\* calibration ends with a pair or with a BadParams error and in no other way.
C10_CalibrationTotal ==
    Ran => calibrated.kind \in {"ok", "BadParams"}

\* calibrating again with the returned pair supplied as C and B, and R as given
Recalibrated(R) ==
    parse_concurrency_args(R, <<calibrated.chunks>>, <<calibrated.blocks>>)

\* C11: calibration is idempotent: when it returned (C', B'), calibrating
\* again with C = C' and B = B' supplied, R absent or R = C'*B', returns the
\* same (C', B').
C11_CalibrationIdempotent ==
    calibrated.kind = "ok"
        => /\ Recalibrated(<<>>) = calibrated
           /\ Recalibrated(<<calibrated.chunks * calibrated.blocks>>) = calibrated

\* R = 5 with C = 2 gave (2, 2), whose product is not the R of the first call
C11_Witness ==
    /\ args = <<<<5>>, <<2>>, <<>>>>
    /\ calibrated = Returned(2, 2)
    /\ Recalibrated(<<4>>) = Returned(2, 2)

(***************************************************************************)
(* Claims about the orchestrator, checked under SpecFreeze.                *)
(***************************************************************************)

\* how many entries of the three lists of the summary are about partition p
Listed(p) ==
    Cardinality({ i \in DOMAIN freeze_summary.completed :
                    freeze_summary.completed[i].id = p })
    + Cardinality({ i \in DOMAIN freeze_summary.skipped :
                      freeze_summary.skipped[i].id = p })
    + Cardinality({ i \in DOMAIN freeze_summary.errored :
                      /\ freeze_summary.errored[i].partition # <<>>
                      /\ freeze_summary.errored[i].partition[1].id = p })

\* C13: the failure of a partition never aborts the run: no partition is
\* dropped because another one failed, and when the run has ended every input
\* partition is in exactly one of completed, skipped and errored, whose
\* lengths are the counts the conclusion prints.
C13_FailureNeverAborts ==
    /\ \A p \in Partitions :
           partState[p] \in {"pending", "dispatched", "completed", "skipped", "errored"}
    /\ run \in {"finished", "concluded"}
           => /\ \A p \in 1..query.partitions : Listed(p) = 1
              /\ Len(freeze_summary.completed) + Len(freeze_summary.skipped)
                     + Len(freeze_summary.errored) = query.partitions
    /\ conclusion.kind = "ok"
           => /\ conclusion.chunks[1].n = Len(freeze_summary.errored)
              /\ conclusion.chunks[2].n = Len(freeze_summary.skipped)
              /\ conclusion.chunks[3].n = Len(freeze_summary.completed)

\* three partitions of which the middle one failed
C13_Witness ==
    /\ run = "concluded"
    /\ conclusion.kind = "ok"
    /\ partState = [p \in Partitions |-> IF p = 2 THEN "errored" ELSE "completed"]
    /\ Len(freeze_summary.completed) = 2
    /\ Len(freeze_summary.errored) = 1
    /\ freeze_summary.errored[1].partition[1].id = 2
    /\ conclusion.chunks[1].n = 1
    /\ conclusion.chunks[3].n = 2

(***************************************************************************)
(* Claims about the conclusion, checked under SpecConclusion.              *)
(***************************************************************************)

\* the entries of FreezeSummary.errored that carry message m
ErroredWith(m) ==
    { i \in DOMAIN freeze_summary.errored : freeze_summary.errored[i].error = m }

\* the messages the error summary shows
Shown == { e[1] : e \in conclusion.errors }

\* C14: when some partitions errored the summary lists the messages with the
\* ten highest counts (all of them when there are at most ten), each with the
\* number of errored entries that carry it.
C14_TopTenErrors ==
    (run = "concluded" /\ freeze_summary.errored # <<>>)
        => /\ \A e \in conclusion.errors : e[2] = Cardinality(ErroredWith(e[1]))
           /\ Cardinality(Shown) =
                  Min(10, Cardinality(ErrorMessages(freeze_summary.errored)))
           /\ \A m \in Shown :
                  \A o \in ErrorMessages(freeze_summary.errored) \ Shown :
                      Cardinality(ErroredWith(m)) >= Cardinality(ErroredWith(o))

\* C15: the conclusion prints a throughput block for every Dim of the
\* query's partitioned_by (ToAddress included), with the number of values
\* collected in the completed partitions, and none for any other Dim.
C15_ThroughputPerDim ==
    conclusion.kind = "ok"
        => /\ { conclusion.speeds[i].dim : i \in DOMAIN conclusion.speeds }
                  = query.partitioned_by
           /\ \A i \in DOMAIN conclusion.speeds :
                  conclusion.speeds[i].collected =
                      n_completed(freeze_summary.completed, conclusion.speeds[i].dim, 1)

(***************************************************************************)
(* Claims about option parsing, checked under SpecCli.                     *)
(***************************************************************************)

\* the process ended before parse_opts returned
PreflightFailed == step \in {"panicked", "exited"}

\* the process has ended
Ended == exit_code # <<>>

\* C16: every pre-flight failure (bad arguments, no --rpc and no ETH_RPC_URL,
\* an unknown datatype, an unreachable node at the chain-id probe, an output
\* directory that cannot be written) ends the process with exit code 1, and
\* exit code 0 comes only from a run that got past pre-flight.
C16_PreflightExitsOne ==
    /\ PreflightFailed => exit_code = <<1>>
    /\ (Ended /\ fs \in {"dir_readonly", "file", "missing_readonly_parent"})
           => exit_code = <<1>>
    /\ exit_code = <<0>> => step = "frozen"

\* C17: without a user sort list every selected datatype sorts by its
\* default_sort(); with one and exactly one selected datatype that datatype
\* sorts by the user's list; with one and several selected datatypes the
\* request ends in a BadSchema error and no sort mapping.
C17_SortResolution ==
    cli.sort # <<>>
        => /\ cli.sort[1] = <<>>
                  => opts.sort = <<[dt \in SchemaKeys |-> default_sort(dt)]>>
           /\ (cli.sort[1] # <<>> /\ Cardinality(SchemaKeys) = 1)
                  => opts.sort = <<[dt \in SchemaKeys |-> cli.sort[1]]>>
           /\ (cli.sort[1] # <<>> /\ Cardinality(SchemaKeys) > 1)
                  => /\ step = "BadSchema"
                     /\ opts.sort = <<>>

\* C18: when the --output-dir path does not exist and its parent is writable,
\* processing the output directory creates it and parsing goes on.
C18_OutputDirCreated ==
    [][(step = "output_dir" /\ fs = "missing")
           => (fs' = "dir" /\ step' = "output_format")]_vars

\* the names the claim says are accepted
ClaimedNames ==
    { "blocks", "logs", "events", "transactions", "txs", "call_traces",
      "state_diffs", "balance_diffs", "code_diffs", "slot_diffs", "nonce_diffs",
      "opcode_traces" }

\* C19: every documented datatype name is accepted and resolved, events as
\* logs and txs as transactions; a name outside the list gives a typed
\* pre-flight error, not a panic.
C19_DatatypeNames ==
    cli.datatype # <<>>
        => LET names == cli.datatype[1]
           IN  /\ (\A i \in DOMAIN names : names[i] \in ClaimedNames)
                      => /\ opts.datatypes # <<>>
                         /\ \A i \in DOMAIN names :
                                /\ names[i] = "blocks"
                                       => opts.datatypes[1][i] = "Blocks"
                                /\ names[i] \in {"logs", "events"}
                                       => opts.datatypes[1][i] = "Logs"
                                /\ names[i] \in {"transactions", "txs"}
                                       => opts.datatypes[1][i] = "Transactions"
               /\ (\E i \in DOMAIN names : names[i] \notin ClaimedNames)
                      => step = "BadParams"

ExtractFailed(t) == extracted[t] \notin {"none", "ok"}

\* position i of the channel's arrival order holds the first Err
FirstErrAt(i) ==
    /\ ExtractFailed(arrived[i])
    /\ \A j \in 1..(i - 1) : ~ExtractFailed(arrived[j])

\* what collect_by_block returned is an error
ReturnedErr == result.kind \in {"err_fetch", "err_extract", "err_transform", "err_join", "err_dfs"}

C22_DefaultsNotImplemented ==
    collector = "default" =>
        /\ \A t \in WorkItems : extracted[t] \in {"none", "not_implemented"}
        /\ transformed = <<>>
        /\ \A i \in 1..Len(chan) : ~chan[i].ok
        /\ msg # <<>> => ~msg[1].ok
        /\ result.kind \in {"pending", "err_fetch", "err_extract"}

\* the defaults ran for every work item: each extract returned the
\* CollectError, and the collection returned the one that arrived first
C22_Witness ==
    /\ collector = "default"
    /\ \A t \in WorkItems : extracted[t] = "not_implemented"
    /\ result.kind = "err_extract"
    /\ result.item = arrived[1]

(***************************************************************************)
(* C23                                                                     *)
(***************************************************************************)
\* the request of the last extract lacks one of the three dimensions
Lacking == \E d \in StoragesDims : fetched.request[d] = <<>>

\* C23: an extract of storages on a work item that lacks address, block number
\* or slot returned BadParams, issued no get_storage_at call and carries no
\* response; a get_storage_at call was issued only for a request with all
\* three; and the step in which an extract fails leaves the builder as it
\* was, a row being appended only from an Ok response
C23_BadParamsBeforeRpc ==
    /\ [](fetched # NotFetched =>
            /\ Lacking => /\ fetched.kind = "BadParams"
                          /\ fetched.rpc_calls = 0
                          /\ fetched.response = <<>>
            /\ fetched.kind = "BadParams" => Lacking /\ fetched.request[fetched.dim] = <<>>
            /\ fetched.rpc_calls > 0 => ~Lacking)
    /\ [][/\ (fetched' # fetched /\ fetched'.kind = "BadParams") => columns' = columns
          /\ (datatype = "storages" /\ columns' # columns) => fetched.kind = "ok"]_vars

\* a builder that already holds a row saw an extract fail on a request with
\* an address and a block number but no slot
C23_Witness ==
    /\ datatype = "storages"
    /\ columns.n_rows > 0
    /\ fetched.kind = "BadParams"
    /\ fetched.dim = "slot"
    /\ fetched.request.address # <<>>
    /\ fetched.request.block_number # <<>>

(***************************************************************************)
(* C24                                                                     *)
(***************************************************************************)
\* C24: under a fair runtime in which every extract returns, collect_by_block
\* eventually returns, with the dataframes or with an error; an extract task
\* that waits in send, be it before transform_channel receives or after it
\* has returned on an error, eventually leaves the send; and every spawned
\* task eventually finishes
C24_Terminates ==
    /\ <>(pc = "done")
    /\ \A t \in WorkItems :
          /\ (task[t] = "sending") ~> (task[t] \in {"exiting", "finished"})
          /\ (task[t] # "unspawned") ~> (task[t] = "finished")

\* collect_by_block returned an error while a task whose extract had failed
\* too had not sent; that task's send returned on the closed channel and every
\* task has finished
C24_Witness ==
    /\ pc = "done"
    /\ result.kind = "err_extract"
    /\ \A t \in WorkItems : task[t] = "finished"
    /\ \E t \in WorkItems : SendFailed(t) /\ ExtractFailed(t)

(***************************************************************************)
(* C25                                                                     *)
(***************************************************************************)
\* C25: whenever R is supplied, with R and every other supplied cap at least
\* 1, and calibration returns a pair (C, B), then C*B <= R
C25_ProductWithinRequests ==
    (Ran /\ Supplied(1) /\ AllSuppliedAtLeastOne /\ calibrated.kind = "ok")
        => calibrated.chunks * calibrated.blocks <= Cap(1)

(***************************************************************************)
(* C26                                                                     *)
(***************************************************************************)
\* C26: whenever calibration returns a pair (C, B), for any combination of
\* supplied caps, a supplied 0 included, C >= 1 and B >= 1
C26_LimitsAtLeastOne ==
    calibrated.kind = "ok" => (calibrated.chunks >= 1 /\ calibrated.blocks >= 1)

(***************************************************************************)
(* C27                                                                     *)
(***************************************************************************)
\* C27: print_cryo_conclusion completes for every summary and query, a query
\* with zero partitions included: it either prints the conclusion or returns
\* at the system-time error, and the percentages never abort the process
C27_ConclusionCompletes ==
    run = "concluded" => conclusion.kind \in {"ok", "aborted_system_time"}

(***************************************************************************)
(* C28                                                                     *)
(***************************************************************************)
\* the (trace, account) entries of every trace of a response, in order, each
\* with the position of its trace
RECURSIVE EveryTraceEntries(_, _)
EveryTraceEntries(traces, i) ==
    IF i > Len(traces) THEN <<>>
    ELSE (IF traces[i].has
          THEN AccountEntries(DOMAIN traces[i].diffs, traces[i], 0, i - 1)
          ELSE <<>>)
         \o EveryTraceEntries(traces, i + 1)

\* those of them whose balance diff is not Same
EveryNonSame(r) ==
    SelectSeq(EveryTraceEntries(r.traces, 1), LAMBDA e : e.diff # Same)

\* C28: a transform of a balance-diffs response adds to n_rows the number of
\* (trace, account) entries of the response whose balance diff is not Same,
\* whatever the length of its list of transaction hashes, and the rows it
\* emits carry the positions of their traces as transaction_index
C28_RowsForEveryTrace ==
    (datatype = "balance_diffs" /\ lastResp # <<>>) =>
        LET due == EveryNonSame(lastResp[1]) IN
        /\ columns.n_rows = prevRows + Len(due)
        /\ "transaction_index" \in schema =>
             Appended("transaction_index") = [i \in 1..Len(due) |-> due[i].index]

====
